---- MODULE Spec2Model ----
(***************************************************************************)
(* humbldata: the Fetcher TET pipeline (transform_query, extract_data,     *)
(* transform_data, fetch_data) of MandelbrotChannelFetcher and             *)
(* MomentumFetcher, the command parameter models they validate, and the    *)
(* symbol normalisation of PortfolioQueryParams.                           *)
(***************************************************************************)
EXTENDS Integers, Sequences, FiniteSets, TLC

\* ------------------------------------------------------------------ bounds
\* fetch_data calls made on one Fetcher instance
MaxCalls == 2
\* warnings a caller appends to one Fetcher's public `warnings` list
MaxLocalWarnings == 1
\* entries of a symbol collection given to upper_symbol
MaxSymbols == 2
\* characters of one entry of a symbol collection
MaxTickerLen == 2
\* largest period, and largest count of a window string, a caller supplies
MaxPeriod == 2

\* ------------------------------------------------------------- exceptions
NoError == [type |-> "none", msg |-> "", context |-> "none"]

\* raise X(msg): `context` is the exception being handled when X was raised
\* (Python's __cause__/__context__), "none" outside an except block.
Raise(type, msg, context) == [type |-> type, msg |-> msg, context |-> context]

\* --------------------------------------------------- command parameters
\* A command_params value is None, a mapping (dict) of overrides, or a
\* validated model instance.  `keys` is the mapping's key set; a field
\* outside `keys` is not read.
Fetchers == {"f1", "f2"}
Kinds == {"MandelbrotChannel", "Momentum"}

MomentumMethods == {"log", "simple", "shift"}
RvMethods == {"std", "parkinson", "garman_klass", "gk", "hodges_tompkins", "ht",
              "rogers_satchell", "rs", "yang_zhang", "yz", "squared_returns", "sq"}
RsMethods == {"RS", "RS_min", "RS_max", "RS_mean"}

\* toolbox_helpers._window_format(v, _return_timedelta=False): a window string
\* is a count and a unit word; the unit word is mapped to its abbreviation.
WindowUnits == {"d", "day", "w", "week", "mo", "month", "y", "year"}
CanonicalUnit(u) ==
    CASE u \in {"d", "day"} -> "d"
      [] u \in {"w", "week"} -> "w"
      [] u \in {"mo", "month"} -> "mo"
      [] u \in {"y", "year"} -> "y"
      [] OTHER -> "unsupported"
_window_format(v) == [isStr |-> TRUE, num |-> v.num, unit |-> CanonicalUnit(v.unit)]
Window(num, unit) == [isStr |-> TRUE, num |-> num, unit |-> unit]
\* a window override that is not a string (an int)
NonStrWindow == [isStr |-> FALSE, num |-> 1, unit |-> "none"]

\* MandelbrotChannelQueryParams.window_format (field validator, mode="after")
window_format(v) ==
    IF v.isStr
    THEN [ok |-> TRUE, value |-> _window_format(v)]
    ELSE [ok |-> FALSE, value |-> v]

NoneParams == [kind |-> "none"]

MomentumDict(keys, method, period) ==
    [kind |-> "dict", keys |-> keys, method |-> method, period |-> period]
MomentumModel(method, period) ==
    [kind |-> "model", method |-> method, period |-> period]

MandelbrotDict(keys, window, rv_method, live_price) ==
    [kind |-> "dict", keys |-> keys, window |-> window, rv_method |-> rv_method,
     live_price |-> live_price]
MandelbrotModel(window, rv_adjustment, rv_method, rs_method, rv_grouped_mean, live_price) ==
    [kind |-> "model", window |-> window, rv_adjustment |-> rv_adjustment,
     rv_method |-> rv_method, rs_method |-> rs_method,
     rv_grouped_mean |-> rv_grouped_mean, live_price |-> live_price]

\* declared defaults of the two command parameter models
DefaultMethod == "log"
DefaultPeriod == 1
MinPeriod == 1
DefaultWindow == Window(1, "mo")

\* MomentumQueryParams with the `ge=1` bound of `period` left out
MomentumQueryParams_NoBound(kw) ==
    LET method == IF "method" \in kw.keys THEN kw.method ELSE "log"
        period == IF "period" \in kw.keys THEN kw.period ELSE 1
    IN  IF method \notin MomentumMethods
        THEN [ok |-> FALSE, value |-> kw,
              err |-> Raise("ValidationError", "method", "none")]
        ELSE [ok |-> TRUE, value |-> MomentumModel(method, period), err |-> NoError]

\* MomentumQueryParams(**kw): pydantic validation of a mapping of overrides
MomentumQueryParams(kw) ==
    LET method == IF "method" \in kw.keys THEN kw.method ELSE DefaultMethod
        period == IF "period" \in kw.keys THEN kw.period ELSE DefaultPeriod
    IN  IF method \notin MomentumMethods
        THEN [ok |-> FALSE, value |-> kw,
              err |-> Raise("ValidationError", "method", "none")]
        ELSE IF period < MinPeriod
        THEN [ok |-> FALSE, value |-> kw,
              err |-> Raise("ValidationError", "period", "none")]
        ELSE [ok |-> TRUE, value |-> MomentumModel(method, period), err |-> NoError]

\* MandelbrotChannelQueryParams(**kw): a field that is not overridden takes
\* its default as declared (pydantic does not run validators on defaults);
\* window_format runs on a supplied window after the str type check.
MandelbrotChannelQueryParams(kw) ==
    LET w == IF "window" \in kw.keys THEN window_format(kw.window)
             ELSE [ok |-> TRUE, value |-> DefaultWindow]
        rv_method == IF "rv_method" \in kw.keys THEN kw.rv_method ELSE "std"
        live_price == IF "live_price" \in kw.keys THEN kw.live_price ELSE FALSE
    IN  IF ~w.ok
        THEN [ok |-> FALSE, value |-> kw,
              err |-> Raise("ValidationError", "window", "none")]
        ELSE IF rv_method \notin RvMethods
        THEN [ok |-> FALSE, value |-> kw,
              err |-> Raise("ValidationError", "rv_method", "none")]
        ELSE [ok |-> TRUE,
              value |-> MandelbrotModel(w.value, TRUE, rv_method, "RS", FALSE, live_price),
              err |-> NoError]

QueryParams(kind, kw) ==
    IF kind = "Momentum" THEN MomentumQueryParams(kw) ELSE MandelbrotChannelQueryParams(kw)

EmptyDict(kind) ==
    IF kind = "Momentum" THEN MomentumDict({}, DefaultMethod, DefaultPeriod)
    ELSE MandelbrotDict({}, DefaultWindow, "std", FALSE)

\* `not self.command_params`: None and the empty mapping are falsy
Falsy(cp) == cp.kind = "none" \/ (cp.kind = "dict" /\ cp.keys = {})

\* transform_query that takes anything but a mapping as "no overrides" and
\* builds the defaults
transform_query_DefaultsUnlessDict(kind, cp) ==
    IF cp.kind = "dict" /\ cp.keys # {} THEN QueryParams(kind, cp)
    ELSE QueryParams(kind, EmptyDict(kind))

\* transform_query that builds nothing when no overrides were supplied
transform_query_KeepsFalsy(kind, cp) ==
    IF cp.kind = "none" \/ (cp.kind = "dict" /\ cp.keys = {})
    THEN [ok |-> TRUE, value |-> cp, err |-> NoError]
    ELSE IF cp.kind = "dict"
    THEN (IF kind = "Momentum" THEN MomentumQueryParams(cp)
          ELSE MandelbrotChannelQueryParams(cp))
    ELSE [ok |-> FALSE, value |-> cp,
          err |-> Raise("TypeError", "argument after ** must be a mapping", "none")]

\* transform_query: [ok, value (the new self.command_params), err]
transform_query(kind, cp) ==
    IF Falsy(cp) THEN QueryParams(kind, EmptyDict(kind))
    ELSE IF cp.kind = "dict" THEN QueryParams(kind, cp)
    ELSE \* `**` applied to a model instance, which is not a mapping
         [ok |-> FALSE, value |-> cp,
          err |-> Raise("TypeError", "argument after ** must be a mapping", "none")]

\* ------------------------------------------------------------ data frames
\* A frame is its column names, its row count and, when it has a symbol
\* column, that column's values row by row.
NoFrame == [cols |-> {}, nrows |-> 0, symbol |-> << >>]
ProviderCols == {"date", "close", "dividends", "stock_splits"}

\* the provider's own spelling of a requested symbol in its symbol column
ProviderSymbol(s) == CASE s = "AAPL" -> "aapl" [] s = "MSFT" -> "msft" [] OTHER -> s

\* obb.equity.price.historical(...).to_polars().lazy(): one row per requested
\* symbol; the provider includes its symbol column or omits it, or raises.
ProviderResponses == {"fault", "omits_symbol", "has_symbol"}
historical(symbols, response) ==
    IF response = "has_symbol"
    THEN [cols |-> ProviderCols \cup {"symbol"}, nrows |-> Len(symbols),
          symbol |-> [i \in 1..Len(symbols) |-> ProviderSymbol(symbols[i])]]
    ELSE [cols |-> ProviderCols, nrows |-> Len(symbols), symbol |-> << >>]

\* LazyFrame.with_columns(symbol=pl.lit(v)): adds or overwrites the column
with_columns_symbol(frame, v) ==
    [cols |-> frame.cols \cup {"symbol"}, nrows |-> frame.nrows,
     symbol |-> [i \in 1..frame.nrows |-> v]]

\* LazyFrame.drop(names)
drop(frame, names) == [frame EXCEPT !.cols = @ \ names]

\* the columns each Fetcher drops from the provider's frame
DroppedCols(kind) ==
    IF kind = "MandelbrotChannel" THEN {"dividends", "stock_splits"} ELSE {}

\* the injection with `>= 1` written for `== 1`
InjectSymbol_AtLeastOne(symbols, frame) ==
    IF Len(symbols) >= 1 THEN with_columns_symbol(frame, symbols[1]) ELSE frame

\* `if len(symbols) == 1: with_columns(symbol=pl.lit(symbols[0]))`
InjectSymbol(symbols, frame) ==
    IF Len(symbols) = 1 THEN with_columns_symbol(frame, symbols[1]) ELSE frame

\* extract_data with the provider call wrapped in try/except that re-raises
\* a wrapper exception
extract_data_Wrapped(kind, symbols, response) ==
    IF response = "fault"
    THEN [ok |-> FALSE, frame |-> NoFrame,
          err |-> Raise("ExtractionError", "provider fault", "ProviderError")]
    ELSE [ok |-> TRUE,
          frame |-> IF Len(symbols) = 1
                    THEN with_columns_symbol(
                             drop(historical(symbols, response), DroppedCols(kind)),
                             symbols[1])
                    ELSE drop(historical(symbols, response), DroppedCols(kind)),
          err |-> NoError]

\* extract_data: [ok, frame, err]; a provider fault propagates as raised
extract_data(kind, symbols, response) ==
    IF response = "fault"
    THEN [ok |-> FALSE, frame |-> NoFrame,
          err |-> Raise("ProviderError", "provider fault", "none")]
    ELSE [ok |-> TRUE,
          frame |-> InjectSymbol(symbols,
                        drop(historical(symbols, response), DroppedCols(kind))),
          err |-> NoError]

\* ----------------------------------------------------------- calculation
\* The kernel (calc_mandelbrot_channel, momentum) either raises or returns a
\* table that conforms to the command's Data schema or lacks a column of it.
KernelOutcomes == {"raises", "conforms", "missing_column"}
NoTable == [kernel |-> "none", conforms |-> FALSE, validated |-> FALSE]
kernel(kind, outcome) ==
    IF outcome = "raises"
    THEN [ok |-> FALSE, table |-> NoTable,
          err |-> Raise("KernelError", "kernel failed", "none")]
    ELSE [ok |-> TRUE,
          table |-> [kernel |-> kind, conforms |-> (outcome = "conforms"),
                     validated |-> FALSE],
          err |-> NoError]

NoExtra == [exists |-> FALSE, updated |-> FALSE, calculation_method |-> "", period |-> 0]
EmptyExtra == [exists |-> TRUE, updated |-> FALSE, calculation_method |-> "", period |-> 0]

\* the exception a MomentumFetcher.transform_data except block raises for e:
\* `raise HumblDataError(...) from e`, where the module never binds the name
\* HumblDataError, so evaluating it raises NameError while e is being handled
MomentumReraise(e) ==
    Raise("NameError", "name 'HumblDataError' is not defined", e.type)

\* MomentumFetcher.transform_data: [ok, extra, table, err]
MomentumTransformData(extra, outcome) ==
    LET x == [exists |-> TRUE, updated |-> TRUE,
              calculation_method |-> "log", period |-> 1]
        k == kernel("Momentum", outcome)
    IN  IF k.ok THEN [ok |-> TRUE, extra |-> x, table |-> k.table, err |-> NoError]
        ELSE [ok |-> FALSE, extra |-> x, table |-> NoTable, err |-> MomentumReraise(k.err)]

\* MandelbrotChannelFetcher.transform_data: the kernel call, nothing caught
MandelbrotTransformData(extra, outcome) ==
    LET k == kernel("MandelbrotChannel", outcome)
    IN  [ok |-> k.ok, extra |-> extra, table |-> k.table, err |-> k.err]

transform_data(kind, extra, outcome) ==
    IF kind = "Momentum" THEN MomentumTransformData(extra, outcome)
    ELSE MandelbrotTransformData(extra, outcome)

\* MandelbrotChannelData(out).serialize() in fetch_data: [ok, table, err]
MandelbrotChannelData(table) ==
    IF table.conforms
    THEN [ok |-> TRUE, table |-> [table EXCEPT !.validated = TRUE], err |-> NoError]
    ELSE [ok |-> FALSE, table |-> NoTable,
          err |-> Raise("SchemaError", "column not in dataframe", "none")]

\* -------------------------------------------------------------- envelope
NoEnvelope == [built |-> FALSE]
WarningList(items) == [exists |-> TRUE, items |-> items]
NoAttribute == [exists |-> FALSE, items |-> << >>]

\* the merge with the operands swapped
CombineWarnings_FetcherFirst(contextWarnings, fetcherWarnings) ==
    [context |-> contextWarnings, all |-> fetcherWarnings.items \o contextWarnings.items]

\* the merge done in place: `self.context_params.warnings += self.warnings`
CombineWarnings_InPlace(contextWarnings, fetcherWarnings) ==
    [context |-> [exists |-> TRUE,
                  items |-> contextWarnings.items \o fetcherWarnings.items],
     all |-> contextWarnings.items \o fetcherWarnings.items]

\* `all_warnings = self.context_params.warnings + self.warnings`: a new list
CombineWarnings(contextWarnings, fetcherWarnings) ==
    [context |-> contextWarnings, all |-> contextWarnings.items \o fetcherWarnings.items]

\* the `if not hasattr(obj, name): obj.name = []` guards of fetch_data
InitIfMissing(attribute) == IF attribute.exists THEN attribute ELSE WarningList(<< >>)

\* tail of MomentumFetcher.fetch_data: [context_params, fetcher, envelope]
MomentumHumblObject(context, self) ==
    LET cw == InitIfMissing(context.warnings)
        fw == InitIfMissing(self.warnings)
        extra == IF self.extra.exists THEN self.extra ELSE EmptyExtra
        merged == CombineWarnings(cw, fw)
    IN  [context_params |-> [context EXCEPT !.warnings = merged.context],
         fetcher |-> [self EXCEPT !.warnings = fw, !.extra = extra],
         envelope |-> [built |-> TRUE,
                       results |-> self.transformed_data,
                       provider |-> context.provider,
                       warnings |-> [isNone |-> FALSE, items |-> merged.all],
                       command_params |-> self.command_params,
                       extra |-> extra]]

\* tail of MandelbrotChannelFetcher.fetch_data: warnings=None, no extra
MandelbrotHumblObject(context, self) ==
    [context_params |-> context,
     fetcher |-> self,
     envelope |-> [built |-> TRUE,
                   results |-> self.transformed_data,
                   provider |-> context.provider,
                   warnings |-> [isNone |-> TRUE, items |-> << >>],
                   command_params |-> self.command_params,
                   extra |-> NoExtra]]

HumblObject(context, self) ==
    IF self.kind = "Momentum" THEN MomentumHumblObject(context, self)
    ELSE MandelbrotHumblObject(context, self)

\* fetch_data that builds and returns the envelope ahead of transform_data
fetch_data_EnvelopeEarly(kind) ==
    IF kind = "Momentum"
    THEN <<"transform_query", "extract_data", "HumblObject", "transform_data">>
    ELSE <<"transform_query", "extract_data", "HumblObject", "transform_data",
           "MandelbrotChannelData">>

\* fetch_data with extract_data called ahead of transform_query
fetch_data_ExtractFirst(kind) ==
    IF kind = "Momentum"
    THEN <<"extract_data", "transform_query", "transform_data", "HumblObject">>
    ELSE <<"extract_data", "transform_query", "transform_data",
           "MandelbrotChannelData", "HumblObject">>

\* the statements of fetch_data, in program order
fetch_data(kind) ==
    IF kind = "Momentum"
    THEN <<"transform_query", "extract_data", "transform_data", "HumblObject">>
    ELSE <<"transform_query", "extract_data", "transform_data",
           "MandelbrotChannelData", "HumblObject">>

\* ---------------------------------------------------- symbol normalisation
\* A Python str is the sequence of its characters.
Letters == {"a", "B"}
Whitespace == {" "}
Comma == ","

\* str.upper()
UpperChar(c) == CASE c = "a" -> "A" [] OTHER -> c
upper(str) == [i \in 1..Len(str) |-> UpperChar(str[i])]

\* str.strip(): drops leading and trailing whitespace
RECURSIVE lstrip(_)
lstrip(str) ==
    IF str # << >> /\ Head(str) \in Whitespace THEN lstrip(Tail(str)) ELSE str
RECURSIVE rstrip(_)
rstrip(str) ==
    IF str # << >> /\ str[Len(str)] \in Whitespace
    THEN rstrip(SubSeq(str, 1, Len(str) - 1)) ELSE str
strip(str) == rstrip(lstrip(str))

\* str.split(","): the pieces between commas, empty pieces kept
RECURSIVE split(_)
split(str) ==
    IF \A i \in 1..Len(str) : str[i] # Comma THEN <<str>>
    ELSE LET k == CHOOSE i \in 1..Len(str) :
                      str[i] = Comma /\ \A j \in 1..(i - 1) : str[j] # Comma
         IN  <<SubSeq(str, 1, k - 1)>> \o split(SubSeq(str, k + 1, Len(str)))

\* the two forms of `v`: a str, or a collection of str in iteration order
StrInput(str) == [isStr |-> TRUE, str |-> str, items |-> << >>]
ListInput(items) == [isStr |-> FALSE, str |-> << >>, items |-> items]

\* upper_symbol that trims only the pieces of a split string
upper_symbol_StripStrOnly(v) ==
    IF v.isStr
    THEN [i \in 1..Len(split(v.str)) |-> upper(strip(split(v.str)[i]))]
    ELSE [i \in 1..Len(v.items) |-> upper(v.items[i])]

\* PortfolioQueryParams.upper_symbol(v)
upper_symbol(v) ==
    LET items == IF v.isStr THEN split(v.str) ELSE v.items
    IN  [i \in 1..Len(items) |-> upper(strip(items[i]))]

\* ",".join(items): the comma-separated string form of a collection
RECURSIVE join(_)
join(items) ==
    IF Len(items) = 1 THEN items[1]
    ELSE items[1] \o <<Comma>> \o join(Tail(items))

\* ticker strings as a caller writes them: no comma, not blank
RECURSIVE SeqsUpTo(_, _)
SeqsUpTo(S, n) ==
    IF n = 0 THEN {<< >>}
    ELSE LET shorter == SeqsUpTo(S, n - 1)
         IN  shorter \cup {Append(q, x) : q \in shorter, x \in S}
Tickers ==
    {t \in SeqsUpTo(Letters \cup Whitespace, MaxTickerLen) : strip(t) # << >>}
SymbolCollections == SeqsUpTo(Tickers, MaxSymbols) \ {<< >>}

\* ----------------------------------------------------------------- state
VARIABLES
    context_params,  \* the ContextParameters shared by the Fetchers
    fetcher,         \* each Fetcher instance's attributes
    supplied,        \* the command_params each Fetcher was constructed with
    pc,              \* the fetch_data call in progress and its next statement
    trace,           \* stages the current (or last) fetch_data call has run
    result,          \* what the last finished fetch_data call returned or raised
    calls,           \* fetch_data calls started on each Fetcher
    providerCalls,   \* obb.equity.price.historical calls made for each Fetcher
    envelopes,       \* HumblObjects constructed by each Fetcher
    symbols,         \* a collection of ticker strings a caller holds
    fromStr,         \* upper_symbol of its comma-separated string form
    fromList         \* upper_symbol of the collection itself

fetchvars == <<context_params, fetcher, supplied, pc, trace, result, calls,
               providerCalls, envelopes>>
symvars == <<symbols, fromStr, fromList>>
vars == <<fetchvars, symvars>>

Idle == [f |-> "none", i |-> 0]
NoResult == [f |-> "none", status |-> "none", envelope |-> NoEnvelope, err |-> NoError]

\* command_params a caller constructs a Fetcher with
SuppliedParams(kind) ==
    IF kind = "Momentum"
    THEN {NoneParams,
          MomentumDict({}, DefaultMethod, DefaultPeriod),
          MomentumDict({"period"}, DefaultMethod, 0),
          MomentumDict({"method", "period"}, "simple", 3),
          MomentumDict({"method"}, "cubic", DefaultPeriod)}
    ELSE {NoneParams,
          MandelbrotDict({}, DefaultWindow, "std", FALSE),
          MandelbrotDict({"window"}, Window(2, "week"), "std", FALSE),
          MandelbrotDict({"window"}, NonStrWindow, "std", FALSE)}

\* __init__: MomentumFetcher sets warnings, extra and chart; the
\* MandelbrotChannelFetcher sets only the two parameter attributes.
NewFetcher(kind, command_params) ==
    [kind |-> kind,
     command_params |-> command_params,
     warnings |-> IF kind = "Momentum" THEN WarningList(<< >>) ELSE NoAttribute,
     extra |-> IF kind = "Momentum" THEN EmptyExtra ELSE NoExtra,
     equity_historical_data |-> NoFrame,
     out |-> NoTable,
     transformed_data |-> NoTable]

Contexts ==
    [symbols : {<<"AAPL">>, <<"AAPL", "MSFT">>},
     provider : {"yfinance"},
     warnings : {NoAttribute, WarningList(<< >>), WarningList(<<"A", "B">>)}]

NotRun == [done |-> FALSE, value |-> << >>]

InitFetch ==
    /\ context_params \in Contexts
    /\ \E kinds \in [Fetchers -> Kinds] :
         \E params \in [Fetchers -> UNION {SuppliedParams(k) : k \in Kinds}] :
            /\ \A f \in Fetchers : params[f] \in SuppliedParams(kinds[f])
            /\ fetcher = [f \in Fetchers |-> NewFetcher(kinds[f], params[f])]
            /\ supplied = params
    /\ pc = Idle
    /\ trace = << >>
    /\ result = NoResult
    /\ calls = [f \in Fetchers |-> 0]
    /\ providerCalls = [f \in Fetchers |-> 0]
    /\ envelopes = [f \in Fetchers |-> 0]

Init ==
    /\ InitFetch
    /\ symbols = <<<<"a">>>>
    /\ fromStr = NotRun
    /\ fromList = NotRun

\* --------------------------------------------------------------- actions
Running(f, stmt) ==
    /\ pc.f = f
    /\ pc.i \in 1..Len(fetch_data(fetcher[f].kind))
    /\ fetch_data(fetcher[f].kind)[pc.i] = stmt

\* a stage's exception swallowed (a bare `except: pass` around the stage)
Raises_Swallowed(f, err) ==
    /\ pc' = [pc EXCEPT !.i = @ + 1]
    /\ UNCHANGED result

\* the exception leaves fetch_data: nothing after the raising statement runs
Raises(f, err) ==
    /\ pc' = Idle
    /\ result' = [f |-> f, status |-> "raised", envelope |-> NoEnvelope, err |-> err]

Continues ==
    /\ pc' = [pc EXCEPT !.i = @ + 1]
    /\ UNCHANGED result

\* a caller invokes fetcher.fetch_data(); calls do not overlap (synchronous)
Call(f) ==
    /\ pc = Idle
    /\ calls[f] < MaxCalls
    /\ calls' = [calls EXCEPT ![f] = @ + 1]
    /\ pc' = [f |-> f, i |-> 1]
    /\ trace' = << >>
    /\ result' = NoResult
    /\ UNCHANGED <<context_params, fetcher, supplied, providerCalls, envelopes, symvars>>

\* self.transform_query()
TransformQuery(f) ==
    /\ Running(f, "transform_query")
    /\ LET r == transform_query(fetcher[f].kind, fetcher[f].command_params)
       IN  /\ trace' = Append(trace, "transform_query")
           /\ fetcher' = [fetcher EXCEPT ![f].command_params = r.value]
           /\ IF r.ok THEN Continues ELSE Raises(f, r.err)
    /\ UNCHANGED <<context_params, supplied, calls, providerCalls, envelopes, symvars>>

\* self.extract_data(), with the provider's response
ExtractData(f, response) ==
    /\ Running(f, "extract_data")
    /\ LET r == extract_data(fetcher[f].kind, context_params.symbols, response)
       IN  /\ trace' = Append(trace, "extract_data")
           /\ providerCalls' = [providerCalls EXCEPT ![f] = @ + 1]
           /\ IF r.ok
              THEN /\ fetcher' = [fetcher EXCEPT ![f].equity_historical_data = r.frame]
                   /\ Continues
              ELSE /\ UNCHANGED fetcher
                   /\ Raises(f, r.err)
    /\ UNCHANGED <<context_params, supplied, calls, envelopes, symvars>>

\* self.transform_data(), with the kernel's outcome
TransformData(f, outcome) ==
    /\ Running(f, "transform_data")
    /\ LET self == fetcher[f]
           r == transform_data(self.kind, self.extra, outcome)
       IN  /\ trace' = Append(trace, "transform_data")
           /\ IF r.ok
              THEN /\ fetcher' = [fetcher EXCEPT
                         ![f].extra = r.extra,
                         ![f].out = IF self.kind = "Momentum" THEN @ ELSE r.table,
                         ![f].transformed_data =
                             IF self.kind = "Momentum" THEN r.table ELSE @]
                   /\ Continues
              ELSE /\ fetcher' = [fetcher EXCEPT ![f].extra = r.extra]
                   /\ Raises(f, r.err)
    /\ UNCHANGED <<context_params, supplied, calls, providerCalls, envelopes, symvars>>

\* self.transformed_data = MandelbrotChannelData(out).serialize()
Validate(f) ==
    /\ Running(f, "MandelbrotChannelData")
    /\ LET r == MandelbrotChannelData(fetcher[f].out)
       IN  /\ trace' = Append(trace, "MandelbrotChannelData")
           /\ IF r.ok
              THEN /\ fetcher' = [fetcher EXCEPT ![f].transformed_data = r.table]
                   /\ Continues
              ELSE /\ UNCHANGED fetcher
                   /\ Raises(f, r.err)
    /\ UNCHANGED <<context_params, supplied, calls, providerCalls, envelopes, symvars>>

\* return HumblObject(...)
Return(f) ==
    /\ Running(f, "HumblObject")
    /\ LET r == HumblObject(context_params, fetcher[f])
       IN  /\ trace' = Append(trace, "HumblObject")
           /\ context_params' = r.context_params
           /\ fetcher' = [fetcher EXCEPT ![f] = r.fetcher]
           /\ envelopes' = [envelopes EXCEPT ![f] = @ + 1]
           /\ pc' = Idle
           /\ result' = [f |-> f, status |-> "returned", envelope |-> r.envelope,
                         err |-> NoError]
    /\ UNCHANGED <<supplied, calls, providerCalls, symvars>>

\* the warning a caller or kernel records on Fetcher f
LocalWarning(f) == IF f = "f1" THEN "C" ELSE "D"

\* between calls, code holding the Fetcher appends to its public warnings list
AppendWarning(f) ==
    /\ pc = Idle
    /\ fetcher[f].warnings.exists
    /\ Len(fetcher[f].warnings.items) < MaxLocalWarnings
    /\ fetcher' = [fetcher EXCEPT ![f].warnings.items = Append(@, LocalWarning(f))]
    /\ UNCHANGED <<context_params, supplied, pc, trace, result, calls,
                   providerCalls, envelopes, symvars>>

Next ==
    \/ \E f \in Fetchers : Call(f)
    \/ \E f \in Fetchers : TransformQuery(f)
    \/ \E f \in Fetchers, response \in ProviderResponses : ExtractData(f, response)
    \/ \E f \in Fetchers, outcome \in KernelOutcomes : TransformData(f, outcome)
    \/ \E f \in Fetchers : Validate(f)
    \/ \E f \in Fetchers : Return(f)
    \/ \E f \in Fetchers : AppendWarning(f)

Spec == Init /\ [][Next]_vars

\* ------------------------------------- upper_symbol on both input forms
\* PortfolioQueryParams(symbol=",".join(symbols))
NormalizeStr ==
    /\ ~fromStr.done
    /\ fromStr' = [done |-> TRUE, value |-> upper_symbol(StrInput(join(symbols)))]
    /\ UNCHANGED <<fetchvars, symbols, fromList>>

\* PortfolioQueryParams(symbol=symbols)
NormalizeList ==
    /\ ~fromList.done
    /\ fromList' = [done |-> TRUE, value |-> upper_symbol(ListInput(symbols))]
    /\ UNCHANGED <<fetchvars, symbols, fromStr>>

InitSymbol ==
    /\ context_params = [symbols |-> <<"AAPL">>, provider |-> "yfinance",
                         warnings |-> NoAttribute]
    /\ fetcher = [f \in Fetchers |-> NewFetcher("Momentum", NoneParams)]
    /\ supplied = [f \in Fetchers |-> NoneParams]
    /\ pc = Idle
    /\ trace = << >>
    /\ result = NoResult
    /\ calls = [f \in Fetchers |-> 0]
    /\ providerCalls = [f \in Fetchers |-> 0]
    /\ envelopes = [f \in Fetchers |-> 0]
    /\ symbols \in SymbolCollections
    /\ fromStr = NotRun
    /\ fromList = NotRun

NextSymbol == NormalizeStr \/ NormalizeList

\* --------------------------- Fetchers given every valid set of overrides
\* mappings that pass validation: every method with every period, every
\* window unit with every count, alone or with rv_method and live_price
ValidOverrides(kind) ==
    IF kind = "Momentum"
    THEN {MomentumDict({"method", "period"}, m, p) :
              m \in MomentumMethods, p \in MinPeriod..MaxPeriod}
    ELSE {MandelbrotDict({"window"}, Window(n, u), "std", FALSE) :
              n \in 1..MaxPeriod, u \in WindowUnits}
         \cup {MandelbrotDict({"window", "rv_method", "live_price"},
                              Window(n, u), "yz", b) :
                   n \in 1..MaxPeriod, u \in WindowUnits, b \in BOOLEAN}

InitRevalidate ==
    /\ context_params = [symbols |-> <<"AAPL">>, provider |-> "yfinance",
                         warnings |-> WarningList(<< >>)]
    /\ \E kind \in Kinds : \E params \in ValidOverrides(kind) :
          /\ fetcher = [f \in Fetchers |->
                           IF f = "f1" THEN NewFetcher(kind, params)
                           ELSE NewFetcher("Momentum", NoneParams)]
          /\ supplied = [f \in Fetchers |-> IF f = "f1" THEN params ELSE NoneParams]
    /\ pc = Idle
    /\ trace = << >>
    /\ result = NoResult
    /\ calls = [f \in Fetchers |-> 0]
    /\ providerCalls = [f \in Fetchers |-> 0]
    /\ envelopes = [f \in Fetchers |-> 0]
    /\ symbols = <<<<"a">>>>
    /\ fromStr = NotRun
    /\ fromList = NotRun

SpecRevalidate == InitRevalidate /\ [][Next]_vars

SpecSymbol == InitSymbol /\ [][NextSymbol]_vars

\* ------------------------------------------------------------ properties
Range(seq) == {seq[i] : i \in 1..Len(seq)}
Last(seq) == seq[Len(seq)]
IsPrefix(p, q) == Len(p) <= Len(q) /\ p = SubSeq(q, 1, Len(p))

TETStages == <<"transform_query", "extract_data", "transform_data", "HumblObject">>
IsTETStage(e) == e \in Range(TETStages)

\* C1: within one fetch_data call of either Fetcher, transform_query,
\* extract_data and transform_data run at most once each and only in that
\* order, the envelope is constructed only after all three, and a call that
\* returned has run each of the three exactly once.
C1_StagesInOrder ==
    LET t == SelectSeq(trace, IsTETStage)
    IN  /\ IsPrefix(t, TETStages)
        /\ "HumblObject" \in Range(trace) =>
              /\ t = TETStages
              /\ result.status = "returned"
        /\ result.status = "returned" => t = TETStages

\* C1 witness: a MandelbrotChannelFetcher has just returned its envelope and
\* the other Fetcher, a MomentumFetcher, has returned one before.
C1_Witness ==
    /\ result.status = "returned"
    /\ fetcher[result.f].kind = "MandelbrotChannel"
    /\ \E g \in Fetchers \ {result.f} :
          fetcher[g].kind = "Momentum" /\ envelopes[g] >= 1

\* C2: a fetch_data call in which a stage raised ran no later stage and
\* constructed no envelope; a call that returned carries a complete envelope
\* (the kernel's table of this command, validated command parameters).
C2_NoPartialResult ==
    /\ result.status = "raised" =>
          /\ ~result.envelope.built
          /\ pc = Idle
          /\ "HumblObject" \notin Range(trace)
          /\ IsPrefix(trace, fetch_data(fetcher[result.f].kind))
          /\ Len(trace) < Len(fetch_data(fetcher[result.f].kind))
          /\ envelopes[result.f] < calls[result.f]
    /\ result.status = "returned" =>
          /\ result.envelope.built
          /\ result.err = NoError
          /\ trace = fetch_data(fetcher[result.f].kind)
          /\ result.envelope.results.kernel = fetcher[result.f].kind
          /\ result.envelope.command_params.kind = "model"
    /\ \A f \in Fetchers : envelopes[f] <= calls[f]

\* C2 witness: transform_data has raised in a MomentumFetcher's call.
C2_Witness ==
    /\ result.status = "raised"
    /\ fetcher[result.f].kind = "Momentum"
    /\ trace = <<"transform_query", "extract_data", "transform_data">>

\* a MomentumFetcher constructed with a mapping whose period is below 1
PeriodBelowOne(f) ==
    /\ fetcher[f].kind = "Momentum"
    /\ supplied[f].kind = "dict"
    /\ "period" \in supplied[f].keys
    /\ supplied[f].period < 1

\* C3: a MomentumFetcher given a period below 1 never calls the provider:
\* each of its fetch_data calls raises ValidationError in transform_query.
C3_PeriodFailsFast ==
    \A f \in Fetchers :
        PeriodBelowOne(f) =>
            /\ providerCalls[f] = 0
            /\ (pc.f = f) => trace = << >>
            /\ (result.f = f) =>
                  /\ result.status = "raised"
                  /\ result.err.type = "ValidationError"
                  /\ trace = <<"transform_query">>

\* C3 witness: such a Fetcher's second fetch_data call has raised.
C3_Witness ==
    /\ result.f # "none"
    /\ PeriodBelowOne(result.f)
    /\ result.status = "raised"
    /\ calls[result.f] = 2

RaisedIn(stage) == result.status = "raised" /\ trace # << >> /\ Last(trace) = stage

\* C4 as stated: a provider fault inside extract_data reaches the caller as
\* an ExtractionError that wraps the provider's exception.
C4_Original ==
    RaisedIn("extract_data") =>
        /\ result.err.type = "ExtractionError"
        /\ result.err.context = "ProviderError"

\* C4 amended: a provider fault inside extract_data reaches the caller as the
\* provider's own exception, unwrapped, and no envelope is constructed.
C4_ProviderFaultPropagates ==
    RaisedIn("extract_data") =>
        /\ result.err = [type |-> "ProviderError", msg |-> "provider fault",
                         context |-> "none"]
        /\ ~result.envelope.built
        /\ providerCalls[result.f] >= 1

\* C4 witness: the provider has raised in a MandelbrotChannelFetcher's call.
C4_Witness ==
    /\ RaisedIn("extract_data")
    /\ fetcher[result.f].kind = "MandelbrotChannel"

\* C5: an exception of the kernel or of the schema validation of its output
\* reaches the caller of fetch_data as a TransformError that carries the
\* original message, and as nothing else.
C5_TransformErrorOnly ==
    (RaisedIn("transform_data") \/ RaisedIn("MandelbrotChannelData")) =>
        /\ result.err.type = "TransformError"
        /\ result.err.msg \in {"kernel failed", "column not in dataframe"}

\* the step in which Fetcher f's fetch_data returns its envelope
Returns(f) == pc.f = f /\ pc' = Idle /\ result'.status = "returned"

\* C6 as stated: every Fetcher's returned envelope carries the context's
\* warnings followed by the Fetcher's own.
C6_Original ==
    [][\A f \in Fetchers :
          Returns(f) =>
              result'.envelope.warnings =
                  [isNone |-> FALSE,
                   items |-> context_params.warnings.items \o fetcher[f].warnings.items]]_vars

\* C6 amended: a MomentumFetcher's returned envelope carries the context's
\* warnings (none when the context has no warnings attribute) followed by
\* the Fetcher's own, order kept; a MandelbrotChannelFetcher's envelope
\* carries warnings None.
C6_MomentumWarningOrder ==
    [][\A f \in Fetchers :
          Returns(f) =>
              IF fetcher[f].kind = "Momentum"
              THEN result'.envelope.warnings =
                       [isNone |-> FALSE,
                        items |-> context_params.warnings.items
                                      \o fetcher[f].warnings.items]
              ELSE result'.envelope.warnings.isNone]_vars

\* C6 witness: context warnings [A, B], Fetcher warnings [C], envelope [A, B, C].
C6_Witness ==
    /\ result.status = "returned"
    /\ context_params.warnings.items = <<"A", "B">>
    /\ fetcher[result.f].warnings.items = <<"C">>
    /\ result.envelope.warnings.items = <<"A", "B", "C">>

\* no envelope holds a warning recorded on another Fetcher
NoLeak ==
    result.status = "returned" =>
        \A g \in Fetchers \ {result.f} :
            LocalWarning(g) \notin Range(result.envelope.warnings.items)

\* C7 as stated: no step changes the shared context's warnings attribute,
\* its existence included, and no envelope holds another Fetcher's warnings.
C7_Original ==
    /\ [][context_params'.warnings = context_params.warnings]_vars
    /\ []NoLeak

\* what one step may do to the shared context's warnings
ContextWarningsStep ==
    /\ context_params.warnings.exists =>
          context_params'.warnings = context_params.warnings
    /\ context_params'.warnings # context_params.warnings =>
          /\ context_params'.warnings = [exists |-> TRUE, items |-> << >>]
          /\ \E f \in Fetchers : Returns(f) /\ fetcher[f].kind = "Momentum"

\* C7 amended: an existing context warnings list is never changed; an absent
\* one is created, empty, only by a MomentumFetcher's returning fetch_data;
\* no envelope holds another Fetcher's warnings.
C7_ContextWarningsKept ==
    /\ [][ContextWarningsStep]_vars
    /\ []NoLeak

\* C7 witness: a MomentumFetcher returns its envelope after another
\* MomentumFetcher with a local warning has returned one.
C7_Witness ==
    /\ result.status = "returned"
    /\ fetcher[result.f].kind = "Momentum"
    /\ \E g \in Fetchers \ {result.f} :
          /\ fetcher[g].kind = "Momentum"
          /\ envelopes[g] >= 1
          /\ fetcher[g].warnings.items # << >>

\* C8: the frame extract_data leaves has a constant symbol column equal to
\* the requested symbol when one symbol was requested; with two or more its
\* symbol column is the provider's, or missing if the provider sent none.
C8_SymbolColumn ==
    \A f \in Fetchers :
        LET frame == fetcher[f].equity_historical_data
            requested == context_params.symbols
        IN  frame # NoFrame =>
              IF Len(requested) = 1
              THEN /\ "symbol" \in frame.cols
                   /\ frame.nrows >= 1
                   /\ \A i \in 1..frame.nrows : frame.symbol[i] = requested[1]
              ELSE \/ "symbol" \notin frame.cols /\ frame.symbol = << >>
                   \/ /\ "symbol" \in frame.cols
                      /\ frame.symbol =
                            [i \in 1..Len(requested) |-> ProviderSymbol(requested[i])]

\* C8 witness: one symbol requested, the provider sent its own symbol
\* column, and the extracted frame holds the requested symbol instead.
C8_Witness ==
    /\ context_params.symbols = <<"AAPL">>
    /\ trace # << >> /\ Last(trace) = "extract_data"
    /\ pc.f # "none"
    /\ fetcher[pc.f].equity_historical_data.symbol = <<"AAPL">>

\* the Fetcher was constructed with None or an empty mapping
NoOverrides(f) ==
    supplied[f].kind = "none" \/ (supplied[f].kind = "dict" /\ supplied[f].keys = {})

\* transform_query has run on Fetcher f
QueryTransformed(f) ==
    calls[f] >= 1 /\ ~(pc.f = f /\ "transform_query" \notin Range(trace))

IsNormalized(str) ==
    /\ \A i \in 1..Len(str) : str[i] # "a"
    /\ str # << >> => (str[1] \notin Whitespace /\ str[Len(str)] \notin Whitespace)

C11_ExtraRecordsApplied ==
    (result.status = "returned" /\ fetcher[result.f].kind = "Momentum") =>
        /\ result.envelope.extra.updated
        /\ result.envelope.extra.calculation_method
               = result.envelope.command_params.method
        /\ result.envelope.extra.period = result.envelope.command_params.period

\* C12: the results of every returned envelope conform to the command's
\* Data schema and were validated against it before the envelope was built.
C12_ResultsValidated ==
    result.status = "returned" =>
        /\ result.envelope.results.conforms
        /\ result.envelope.results.validated

\* the field values of a validated instance, as a mapping (model_dump)
FieldValues(kind, model) ==
    IF kind = "Momentum"
    THEN MomentumDict({"method", "period"}, model.method, model.period)
    ELSE MandelbrotDict({"window", "rv_method", "live_price"},
                        model.window, model.rv_method, model.live_price)

\* constructing the parameter model again from a validated instance's field
\* values succeeds and gives the same field values
RevalidationKeepsValues ==
    \A f \in Fetchers :
        fetcher[f].command_params.kind = "model" =>
            LET again == QueryParams(fetcher[f].kind,
                                     FieldValues(fetcher[f].kind, fetcher[f].command_params))
            IN  again.ok /\ again.value = fetcher[f].command_params

\* a transform_query step on a validated instance leaves command_params as is
TransformQueryKeepsValidated ==
    \A f \in Fetchers :
        (Running(f, "transform_query") /\ trace' # trace
            /\ fetcher[f].command_params.kind = "model") =>
                fetcher'[f].command_params = fetcher[f].command_params

EnvelopeStep ==
    \A f \in Fetchers :
        /\ envelopes'[f] \in {envelopes[f], envelopes[f] + 1}
        /\ envelopes'[f] # envelopes[f] =>
              /\ Returns(f)
              /\ result'.f = f
              /\ result'.envelope.built
              /\ SelectSeq(trace', IsTETStage) = TETStages
              /\ Last(trace') = "HumblObject"
        /\ Returns(f) => envelopes'[f] = envelopes[f] + 1
        /\ (pc.f = f /\ result'.status = "raised") =>
              /\ envelopes'[f] = envelopes[f]
              /\ ~result'.envelope.built

\* once the envelope is constructed the call is over
EnvelopeIsLastStep ==
    "HumblObject" \in Range(trace) =>
        /\ pc = Idle
        /\ Last(trace) = "HumblObject"
        /\ result.status = "returned"

====
